---- MODULE Spec2Model ----
(***************************************************************************)
(* FoodCrawler: the /ask handler of main.py with its process-wide thread   *)
(* cache (get_or_create_thread), and the tool-calling flow of              *)
(* smart_coach.py (submit, poll, dispatch tool calls, submit outputs).     *)
(* The Backboard service is the environment: every remote call may         *)
(* succeed, raise pydantic's ValidationError or raise another error, and   *)
(* the remote agent appends messages to a thread at its own pace.          *)
(***************************************************************************)
EXTENDS Integers, Sequences, FiniteSets, TLC

\* ------------------------------------------------------------------ bounds
NumAsks == 2
MaxCalls == 2
MaxAgentMsgs == 2
MaxPrior == 1

\* --------------------------------------------------------- program constants
\* main.py:152  for _ in range(5)
RetryBudget == 5
\* smart_coach.py:110  for i in range(5)
CoachBudget == 5

\* ------------------------------------------------------------------ values
Asks == 1..NumAsks

\* Python's None where a thread handle is expected
NoThread == <<"none", 0>>
\* the value of FORCE_THREAD_ID when the operator pinned a thread
ForcedId == <<"forced", 0>>
\* the handle the service issues for the n-th thread it creates
Tid(n) == <<"thread", n>>
ThreadIds == {ForcedId} \cup {Tid(n) : n \in Asks}
\* the n-th thread an earlier run of the process left on the service
PriorId(n) == <<"prior", n>>

NoAssistant == "none"

\* message content: None, "", the question of ask p, a text written by the
\* agent. The second component says which question an agent message belongs
\* to.
NullContent(p) == <<"null", p>>
EmptyText(p) == <<"empty", p>>
Question(p) == <<"question", p>>
Reply(p) == <<"reply", p>>

\* Python truthiness of a message content: None and "" are falsy
Truthy(c) == c[1] \notin {"null", "empty"}

Msg(r, c) == [role |-> r, content |-> c]

NoOutcome == [kind |-> "none", val |-> NullContent(0)]
Outcome(k, v) == [kind |-> k, val |-> v]

VARIABLES
    program,           \* which entry point runs: "main" or "smart_coach"
    env_forced,        \* os.getenv("FORCE_THREAD_ID")
    assistant_id,      \* main.py global
    latest_thread_id,  \* main.py global
    started,           \* the startup event has run
    remote,            \* the service: threads created, create_thread calls, histories
    ask,               \* one record per /ask invocation
    coach              \* the state of smart_coach.main

vars == <<program, env_forced, assistant_id, latest_thread_id, started, remote, ask, coach>>

\* ------------------------------------------------------------ main.py state
AskInit ==
    [pc |-> "idle", thread_id |-> NoThread, sub |-> "none", tick |-> 0,
     nAdd |-> 0, nGet |-> 0, nSleep |-> 0, sawAssistant |-> FALSE,
     sawText |-> NullContent(0), after |-> {}, outcome |-> NoOutcome]

RemoteInit ==
    [created |-> 0, createCalls |-> 0, createFailed |-> 0, prior |-> 0,
     hist |-> [t \in ThreadIds |-> <<>>]]

InitMain ==
    /\ env_forced \in {NoThread, ForcedId}
    /\ assistant_id \in {NoAssistant, "assistant"}
    /\ latest_thread_id = NoThread
    /\ started = FALSE
    \* without a pinned thread, an earlier run may have left threads behind
    /\ \E n \in 0..(IF env_forced = NoThread THEN MaxPrior ELSE 0) :
          remote = [RemoteInit EXCEPT !.prior = n]
    /\ ask = [p \in Asks |-> AskInit]

\* ------------------------------------------------------- main.py operations
\* @app.on_event("startup"): create the assistant when none is configured;
\* a failure is printed and assistant_id stays unset
startup ==
    /\ program = "main"
    /\ ~started
    /\ started' = TRUE
    /\ IF assistant_id = NoAssistant
          THEN assistant_id' \in {"assistant", NoAssistant}
          ELSE assistant_id' = assistant_id
    /\ UNCHANGED <<program, env_forced, latest_thread_id, remote, ask, coach>>

\* get_or_create_thread with the assistant checked before the pinned handle
GocDecisionAssistantFirst(forced, cached, asst) ==
    IF asst = NoAssistant THEN [ret |-> TRUE, id |-> NoThread]
    ELSE IF forced # NoThread THEN [ret |-> TRUE, id |-> forced]
    ELSE IF cached # NoThread THEN [ret |-> TRUE, id |-> cached]
    ELSE [ret |-> FALSE, id |-> NoThread]

\* get_or_create_thread with the test of the cached handle left out
GocDecisionIgnoresCache(forced, cached, asst) ==
    IF forced # NoThread THEN [ret |-> TRUE, id |-> forced]
    ELSE IF asst # NoAssistant THEN [ret |-> FALSE, id |-> NoThread]
    ELSE [ret |-> TRUE, id |-> NoThread]

\* get_or_create_thread up to its only suspension point: what it returns at
\* once (ret), or that it goes on to await create_thread
GocDecision(forced, cached, asst) ==
    IF forced # NoThread THEN [ret |-> TRUE, id |-> forced]
    ELSE IF cached # NoThread THEN [ret |-> TRUE, id |-> cached]
    ELSE IF asst # NoAssistant THEN [ret |-> FALSE, id |-> NoThread]
    ELSE [ret |-> TRUE, id |-> NoThread]

\* ask line 135: the call of get_or_create_thread, run to its return or to
\* the await of bb_client.create_thread
get_or_create_thread(p) ==
    /\ program = "main"
    /\ started
    /\ ask[p].pc = "idle"
    /\ LET d == GocDecision(env_forced, latest_thread_id, assistant_id)
           \* the invocations that had returned when this one was called
           done == {q \in Asks : ask[q].pc = "done"}
       IN IF d.ret
             THEN /\ ask' = [ask EXCEPT ![p].pc = "submit", ![p].thread_id = d.id,
                                        ![p].after = done]
                  /\ UNCHANGED remote
             ELSE /\ ask' = [ask EXCEPT ![p].pc = "creating", ![p].after = done]
                  /\ remote' = [remote EXCEPT !.createCalls = @ + 1]
    /\ UNCHANGED <<program, env_forced, assistant_id, latest_thread_id, started, coach>>

\* create_thread returns a new thread: it is cached and returned
create_thread_ok(p) ==
    /\ program = "main"
    /\ ask[p].pc = "creating"
    /\ LET t == Tid(remote.created + 1) IN
          /\ remote' = [remote EXCEPT !.created = @ + 1]
          /\ latest_thread_id' = t
          /\ ask' = [ask EXCEPT ![p].pc = "submit", ![p].thread_id = t]
    /\ UNCHANGED <<program, env_forced, assistant_id, started, coach>>

\* create_thread raises with "except: pass" left out: the exception leaves
\* get_or_create_thread and ask
create_thread_fails_raising(p) ==
    /\ program = "main"
    /\ ask[p].pc = "creating"
    /\ remote' = [remote EXCEPT !.createFailed = @ + 1]
    /\ ask' = [ask EXCEPT ![p].pc = "done", ![p].thread_id = NoThread,
                          ![p].outcome = Outcome("Raised", NullContent(0))]
    /\ UNCHANGED <<program, env_forced, assistant_id, latest_thread_id, started, coach>>

\* create_thread raises: "except: pass", then "return None"
create_thread_fails(p) ==
    /\ program = "main"
    /\ ask[p].pc = "creating"
    /\ remote' = [remote EXCEPT !.createFailed = @ + 1]
    /\ ask' = [ask EXCEPT ![p].pc = "submit", ![p].thread_id = NoThread]
    /\ UNCHANGED <<program, env_forced, assistant_id, latest_thread_id, started, coach>>

\* what add_message may do: return, raise ValidationError, raise another error
SubmitResults == {"ok", "validation", "error"}

\* the service records the message unless the call failed outright; a call
\* with no thread records nothing
Recorded(h, t, res, m) ==
    IF t # NoThread /\ res # "error" THEN [h EXCEPT ![t] = Append(@, m)] ELSE h

\* add_message with "except ValidationError: pass" left out
AfterSubmitStrict(res) ==
    IF res = "ok" THEN "poll" ELSE "return_error"

\* add_message with every exception swallowed, as log_meal does
AfterSubmitLenient(res) ==
    "poll"

\* ask lines 137-149: where the handler goes after add_message
AfterSubmit(res) ==
    IF res = "error" THEN "return_error" ELSE "poll"

\* the loop bound off by one
LoopHeadOffByOne(tick) ==
    IF tick <= RetryBudget THEN "sleep" ELSE "timeout"

\* the head of "for _ in range(5)": another iteration, or the loop is over
LoopHead(tick) ==
    IF tick < RetryBudget THEN "sleep" ELSE "timeout"

\* the handler's position and outcome when the loop is entered or re-entered
AtLoopHead(a, tick) ==
    IF LoopHead(tick) = "sleep"
       THEN [a EXCEPT !.pc = "sleep", !.tick = tick]
       ELSE [a EXCEPT !.pc = "done", !.tick = tick,
                      !.outcome = Outcome("Timeout", NullContent(0))]

\* ask lines 137-149: add_message and the handling of what it raises
ask_submit(p, res) ==
    /\ program = "main"
    /\ ask[p].pc = "submit"
    /\ LET a == [ask[p] EXCEPT !.nAdd = @ + 1, !.sub = res] IN
          ask' = [ask EXCEPT ![p] =
                    IF AfterSubmit(res) = "return_error"
                       THEN [a EXCEPT !.pc = "done",
                                      !.outcome = Outcome("Error", NullContent(0))]
                       ELSE AtLoopHead(a, 0)]
    /\ remote' = [remote EXCEPT !.hist =
                     Recorded(@, ask[p].thread_id, res, Msg("user", Question(p)))]
    /\ UNCHANGED <<program, env_forced, assistant_id, latest_thread_id, started, coach>>

\* ask line 153: await asyncio.sleep(2)
ask_sleep(p) ==
    /\ program = "main"
    /\ ask[p].pc = "sleep"
    /\ ask' = [ask EXCEPT ![p].pc = "get", ![p].nSleep = @ + 1]
    /\ UNCHANGED <<program, env_forced, assistant_id, latest_thread_id, started, remote, coach>>

Max(S) == CHOOSE x \in S : \A y \in S : y <= x

Min(S) == CHOOSE x \in S : \A y \in S : x <= y

AssistantIdx(h) == {i \in 1..Len(h) : h[i].role = "assistant"}

HasAssistant(h) == AssistantIdx(h) # {}

\* the scan going through the history forwards
ScanForward(h) == h[Min(AssistantIdx(h))].content

\* ask lines 156-158: the first assistant message met going through the
\* history backwards; its content is the answer, whatever it is
ScanReversed(h) == h[Max(AssistantIdx(h))].content

\* the text of the latest message of a fetched history when that message is
\* an assistant message with a non-empty text; otherwise no text
LatestText(h) ==
    IF h # <<>> /\ h[Len(h)].role = "assistant" /\ Truthy(h[Len(h)].content)
       THEN h[Len(h)].content
       ELSE NullContent(0)

\* what get_thread may give: the thread with its messages, an object without
\* a messages attribute, or an exception. No thread: there is no history.
GetResults(t) ==
    IF t = NoThread THEN {"nomessages", "raise"} ELSE {"data", "nomessages", "raise"}

\* the loop counter kept in one place for all the invocations: an empty
\* fetch by one of them counts for every invocation that is polling
ask_get_thread_shared_counter(p, res) ==
    /\ program = "main"
    /\ ask[p].pc = "get"
    /\ res \in GetResults(ask[p].thread_id)
    /\ LET h == IF res = "data" THEN remote.hist[ask[p].thread_id] ELSE <<>>
           a == [ask[p] EXCEPT !.nGet = @ + 1, !.sawText = LatestText(h)]
       IN  ask' = [q \in Asks |->
                     IF q = p
                        THEN IF res = "raise"
                                THEN [a EXCEPT !.pc = "done",
                                               !.outcome = Outcome("Raised", NullContent(0))]
                             ELSE IF res = "data" /\ HasAssistant(h)
                                THEN [a EXCEPT !.pc = "done", !.sawAssistant = TRUE,
                                               !.outcome = Outcome("Answer", ScanReversed(h))]
                             ELSE AtLoopHead(a, a.tick + 1)
                     ELSE IF ask[q].pc \in {"sleep", "get"} /\ res = "nomessages"
                        THEN [ask[q] EXCEPT !.tick = @ + 1]
                     ELSE ask[q]]
    /\ UNCHANGED <<program, env_forced, assistant_id, latest_thread_id, started, remote, coach>>

\* ask lines 154-159: get_thread, the scan, and the end of the iteration
ask_get_thread(p, res) ==
    /\ program = "main"
    /\ ask[p].pc = "get"
    /\ res \in GetResults(ask[p].thread_id)
    /\ LET h == IF res = "data" THEN remote.hist[ask[p].thread_id] ELSE <<>>
           a == [ask[p] EXCEPT !.nGet = @ + 1, !.sawText = LatestText(h)]
       IN  ask' = [ask EXCEPT ![p] =
                     IF res = "raise"
                        THEN [a EXCEPT !.pc = "done",
                                       !.outcome = Outcome("Raised", NullContent(0))]
                     ELSE IF res = "data" /\ HasAssistant(h)
                        THEN [a EXCEPT !.pc = "done", !.sawAssistant = TRUE,
                                       !.outcome = Outcome("Answer", ScanReversed(h))]
                     ELSE AtLoopHead(a, a.tick + 1)]
    /\ UNCHANGED <<program, env_forced, assistant_id, latest_thread_id, started, remote, coach>>

\* the remote agent answers the question of ask p in thread t: a text, an
\* empty text, or a message without text content
AgentKinds == {"reply", "null", "empty"}

agent_reply(t, p, kind) ==
    /\ program = "main"
    /\ \E i \in 1..Len(remote.hist[t]) : remote.hist[t][i] = Msg("user", Question(p))
    /\ \A i \in 1..Len(remote.hist[t]) :
          ~(remote.hist[t][i].role = "assistant" /\ remote.hist[t][i].content[2] = p)
    /\ remote' = [remote EXCEPT !.hist[t] = Append(@, Msg("assistant", <<kind, p>>))]
    /\ UNCHANGED <<program, env_forced, assistant_id, latest_thread_id, started, ask, coach>>

MainNext ==
    \/ startup
    \/ \E p \in Asks : get_or_create_thread(p)
    \/ \E p \in Asks : create_thread_ok(p)
    \/ \E p \in Asks : create_thread_fails(p)
    \/ \E p \in Asks, res \in SubmitResults : ask_submit(p, res)
    \/ \E p \in Asks : ask_sleep(p)
    \/ \E p \in Asks, res \in {"data", "nomessages", "raise"} : ask_get_thread(p, res)
    \/ \E t \in ThreadIds, p \in Asks, kind \in AgentKinds : agent_reply(t, p, kind)


\* =================================================== smart_coach.py values
\* Python values a tool call's arguments are made of
PyNone == <<"none", "">>
Str(x) == <<"str", x>>

Dict(items) == [type |-> "dict", items |-> items]
List(items) == [type |-> "list", items |-> items]

\* a JSON text is the sequence of its tokens
JsonOf(key, val) == <<"{", key, ":", val, "}">>

\* json.loads on the texts of the model: an object of one member, the empty
\* object, an array of one string; anything else is a JSONDecodeError
JsonLoads(s) ==
    IF Len(s) = 5 /\ s[1] = "{" /\ s[3] = ":" /\ s[5] = "}"
       THEN [ok |-> TRUE, val |-> Dict(<<<<s[2], s[4]>>>>)]
    ELSE IF s = <<"{", "}">>
       THEN [ok |-> TRUE, val |-> Dict(<<>>)]
    ELSE IF Len(s) = 3 /\ s[1] = "[" /\ s[3] = "]"
       THEN [ok |-> TRUE, val |-> List(<<s[2]>>)]
    ELSE [ok |-> FALSE, val |-> Dict(<<>>)]

\* dict.get(key): the value, or None
DictGet(d, key) ==
    IF \E i \in 1..Len(d.items) : d.items[i][1] = key
       THEN Str(d.items[CHOOSE i \in 1..Len(d.items) : d.items[i][1] = key][2])
       ELSE PyNone

\* tc.function.parsed_arguments: a mapping, or a string still to be parsed
DictArgs(v) == [form |-> "dict", val |-> v, text |-> <<>>]
StrArgs(s) == [form |-> "str", val |-> Dict(<<>>), text |-> s]

ArgVariants ==
    {DictArgs(Dict(<<<<"food_name", "Pad Thai">>>>)),
     DictArgs(Dict(<<<<"food_name", "pizza">>>>)),
     DictArgs(Dict(<<>>)),
     StrArgs(JsonOf("food_name", "Pad Thai")),
     StrArgs(<<"{", "food_name", ":">>),
     StrArgs(<<"[", "Pad Thai", "]">>)}

\* what the agent may ask for: the declared tool with any argument payload,
\* or a capability this script does not implement
FunctionCalls ==
    {[name |-> "lookup_nutrition", args |-> a] : a \in ArgVariants}
        \cup {[name |-> "calculate_bmi", args |-> DictArgs(Dict(<<>>))]}

SeqsUpTo(S, n) == UNION {[1..k -> S] : k \in 0..n}

\* the tool calls of one message: each has its id and its function
ToolCallLists ==
    {[i \in 1..Len(fs) |-> [id |-> i, function |-> fs[i]]] : fs \in SeqsUpTo(FunctionCalls, MaxCalls)}

\* smart_coach.py:15-19
FOOD_DATABASE == {"pad thai", "grilled chicken salad", "protein shake"}

\* str.lower() on the food names of the model
Lower(x) == IF x = "Pad Thai" THEN "pad thai" ELSE x

\* smart_coach.py:21-27: the record as JSON, or the error JSON
lookup_nutrition(food_name) ==
    IF Lower(food_name) \in FOOD_DATABASE
       THEN <<"json", Lower(food_name)>>
       ELSE <<"json_error", "Food not found in database">>

\* the arguments used as they come, the string form not parsed
NormalizeNoParse(args) ==
    [ok |-> args.form # "str", val |-> args.val]

\* smart_coach.py:144-146: the arguments as a Python value
Normalize(args) ==
    IF args.form = "str" THEN JsonLoads(args.text) ELSE [ok |-> TRUE, val |-> args.val]

\* smart_coach.py:141: the only capability the loop handles
Handled(tc) == tc.function.name = "lookup_nutrition"

\* smart_coach.py:141-157: one iteration of the loop over tool_calls_found.
\* "skip": nothing appended; "raise": json.loads, args.get or food_name.lower()
\* raised, and nothing in main catches it; "output": one entry appended
DispatchOne(tc) ==
    IF ~Handled(tc)
       THEN [status |-> "skip", food |-> PyNone, out |-> <<>>]
    ELSE LET n == Normalize(tc.function.args) IN
       IF ~n.ok \/ n.val.type # "dict"
          THEN [status |-> "raise", food |-> PyNone, out |-> <<>>]
       ELSE LET food == DictGet(n.val, "food_name") IN
          IF food = PyNone
             THEN [status |-> "raise", food |-> PyNone, out |-> <<>>]
             ELSE [status |-> "output", food |-> food,
                   out |-> <<[tool_call_id |-> tc.id, output |-> lookup_nutrition(food[2])]>>]

\* the object add_message returns; none after the ValidationError
NoResponse == [status |-> "none", tool_calls |-> <<>>, run_id |-> "none"]

\* a message of thread2: tool_calls empty when it carries none
CMsg(r, c, tcs) == [role |-> r, content |-> c, tool_calls |-> tcs]

\* what a get_thread of the poll gave: how it ended and, when it gave the
\* thread, the last of its messages
Fetch(res, last) == [res |-> res, last |-> last]
NoFetch == Fetch("none", CMsg("none", NullContent(0), <<>>))

\* ------------------------------------------------- smart_coach.py state
CoachInit(reqs) ==
    [pc |-> "setup",
     requests |-> reqs,          \* the tool calls the agent will ask for
     thread2 |-> <<>>,           \* the messages of thread2 on the service
     agentMsgs |-> 0,
     sub |-> "none",             \* how the add_message of session 2 ended
     response |-> NoResponse,
     i |-> 0,
     tool_calls_found |-> <<>>,
     k |-> 1,                    \* position of the loop over tool_calls_found
     tool_outputs |-> <<>>,
     invoked |-> <<>>,           \* the food_name of each lookup_nutrition call
     nSleep |-> 0, nGet |-> 0,
     fetched |-> NoFetch,        \* what the poll's latest get_thread gave
     submitted |-> <<>>,         \* the submit_tool_outputs calls made
     fbSleep |-> 0, fbGet |-> 0,
     result |-> "none"]

\* the script is not the program that runs
CoachIdle == [CoachInit(<<>>) EXCEPT !.pc = "off"]

\* --------------------------------------------- smart_coach.py operations
CoachSet(c) ==
    /\ coach' = c
    /\ UNCHANGED <<program, env_forced, assistant_id, latest_thread_id, started, remote, ask>>

\* main lines 33-68: no API key: return; create_assistant or create_thread
\* raising ends the script, nothing catches it
coach_setup(res) ==
    /\ program = "smart_coach"
    /\ coach.pc = "setup"
    /\ CoachSet(IF res = "no_key" THEN [coach EXCEPT !.pc = "done", !.result = "no_key"]
                ELSE IF res = "raise" THEN [coach EXCEPT !.pc = "crashed", !.result = "setup"]
                ELSE [coach EXCEPT !.pc = "session1"])

\* lines 72-82: only the ValidationError is caught
SendCatches(res) == res = "validation"

\* lines 72-88: session 1's add_message, then create_thread for session 2
coach_session1(res, made) ==
    /\ program = "smart_coach"
    /\ coach.pc = "session1"
    /\ CoachSet(IF res = "ok" \/ SendCatches(res)
                   THEN IF made THEN [coach EXCEPT !.pc = "send"]
                        ELSE [coach EXCEPT !.pc = "crashed", !.result = "thread2"]
                   ELSE [coach EXCEPT !.pc = "crashed", !.result = "session1"])

\* the response objects add_message may return
LiveResponses(reqs) ==
    {[status |-> "REQUIRES_ACTION", tool_calls |-> reqs, run_id |-> "run"],
     [status |-> "COMPLETED", tool_calls |-> <<>>, run_id |-> "run"]}

\* the loop over tool_calls_found going to the fallback read with the
\* submit_tool_outputs call left out
DispatchHeadSkipsSubmit(c) ==
    IF c.k <= Len(c.tool_calls_found)
       THEN [c EXCEPT !.pc = "dispatch"]
       ELSE [c EXCEPT !.pc = "fallback_sleep"]

\* lines 140, 159: the loop over tool_calls_found goes on, or is over
DispatchHead(c) ==
    IF c.k <= Len(c.tool_calls_found)
       THEN [c EXCEPT !.pc = "dispatch"]
       ELSE [c EXCEPT !.pc = "submit_outputs"]

\* step C entered whatever tool_calls_found holds
StepCUnguarded(c) ==
    DispatchHead([c EXCEPT !.tool_outputs = <<>>, !.k = 1])

\* lines 137-139, 175-176
StepC(c) ==
    IF c.tool_calls_found # <<>>
       THEN DispatchHead([c EXCEPT !.tool_outputs = <<>>, !.k = 1])
       ELSE [c EXCEPT !.pc = "done", !.result = "no_response"]

\* lines 110-117: the head of "for i in range(5)" and the check of the live
\* response that opens each iteration
CoachLoopHead(c, i) ==
    IF i < CoachBudget
       THEN IF c.response # NoResponse /\ c.response.status = "REQUIRES_ACTION"
               THEN StepC([c EXCEPT !.i = i, !.tool_calls_found = c.response.tool_calls])
               ELSE [c EXCEPT !.i = i, !.pc = "sleep"]
       ELSE StepC([c EXCEPT !.i = i])

\* lines 92-103: session 2's add_message
coach_send(res, live) ==
    /\ program = "smart_coach"
    /\ coach.pc = "send"
    /\ live \in LiveResponses(coach.requests)
    /\ LET c == [coach EXCEPT
                   !.sub = res,
                   !.thread2 = IF res = "error" THEN @
                               ELSE Append(@, CMsg("user", Question(1), <<>>))]
       IN  CoachSet(IF res = "ok" THEN CoachLoopHead([c EXCEPT !.response = live], 0)
                    ELSE IF SendCatches(res) THEN CoachLoopHead(c, 0)
                    ELSE [c EXCEPT !.pc = "crashed", !.result = "send"])

\* line 117
coach_sleep ==
    /\ program = "smart_coach"
    /\ coach.pc = "sleep"
    /\ CoachSet([coach EXCEPT !.pc = "get", !.nSleep = @ + 1])

\* the text reply tested before the tool calls
PollCheckTextFirst(last) ==
    IF last.role = "assistant" /\ Truthy(last.content) THEN "text"
    ELSE IF last.tool_calls # <<>> THEN "tools"
    ELSE "nothing"

\* the text reply recognised by the role alone, the content not tested
PollCheckAnyAssistant(last) ==
    IF last.tool_calls # <<>> THEN "tools"
    ELSE IF last.role = "assistant" THEN "text"
    ELSE "nothing"

\* lines 120-132: what the last message of the thread makes the poll do
PollCheck(last) ==
    IF last.tool_calls # <<>> THEN "tools"
    ELSE IF last.role = "assistant" /\ Truthy(last.content) THEN "text"
    ELSE "nothing"

\* lines 118-134: get_thread inside try/except, and the end of the iteration
coach_get_thread(res) ==
    /\ program = "smart_coach"
    /\ coach.pc = "get"
    /\ res = "data" => coach.thread2 # <<>>
    /\ LET last == coach.thread2[Len(coach.thread2)]
           c == [coach EXCEPT !.nGet = @ + 1,
                              !.fetched = IF res = "data" THEN Fetch(res, last)
                                          ELSE Fetch(res, NoFetch.last)]
       IN  CoachSet(IF res # "data" THEN CoachLoopHead(c, c.i + 1)
                    ELSE IF PollCheck(last) = "tools"
                       THEN StepC([c EXCEPT !.tool_calls_found = last.tool_calls])
                    ELSE IF PollCheck(last) = "text"
                       THEN [c EXCEPT !.pc = "done", !.result = "text_reply"]
                    ELSE CoachLoopHead(c, c.i + 1))

\* lines 140-157: one iteration of the dispatch loop
coach_dispatch ==
    /\ program = "smart_coach"
    /\ coach.pc = "dispatch"
    /\ LET r == DispatchOne(coach.tool_calls_found[coach.k]) IN
          CoachSet(IF r.status = "raise"
                      THEN [coach EXCEPT !.pc = "crashed", !.result = "dispatch"]
                      ELSE DispatchHead([coach EXCEPT
                              !.tool_outputs = @ \o r.out,
                              !.invoked = IF r.status = "output" THEN Append(@, r.food) ELSE @,
                              !.k = @ + 1]))

\* a run identifier passed whether or not there is a response object
RunIdAlways(response) ==
    "run"

\* line 165: getattr(response, 'run_id', None)
RunIdOf(response) ==
    IF response = NoResponse THEN "none" ELSE response.run_id

\* lines 161-170: submit_tool_outputs; if it raises, the fallback follows
coach_submit_outputs(ok) ==
    /\ program = "smart_coach"
    /\ coach.pc = "submit_outputs"
    /\ LET c == [coach EXCEPT !.submitted = Append(@,
                    [thread_id |-> "thread2", run_id |-> RunIdOf(coach.response),
                     tool_outputs |-> coach.tool_outputs])]
       IN  CoachSet(IF ok THEN [c EXCEPT !.pc = "done", !.result = "tool_answer"]
                    ELSE [c EXCEPT !.pc = "fallback_sleep"])

\* line 171
coach_fallback_sleep ==
    /\ program = "smart_coach"
    /\ coach.pc = "fallback_sleep"
    /\ CoachSet([coach EXCEPT !.pc = "fallback_get", !.fbSleep = @ + 1])

\* the fallback read starting another round when the message it reads
\* carries tool calls
coach_fallback_get_redispatch(ok) ==
    /\ program = "smart_coach"
    /\ coach.pc = "fallback_get"
    /\ LET c == [coach EXCEPT !.fbGet = @ + 1]
           last == c.thread2[Len(c.thread2)]
       IN  CoachSet(IF ~ok THEN [c EXCEPT !.pc = "crashed", !.result = "fallback"]
                    ELSE IF last.tool_calls # <<>>
                       THEN StepC([c EXCEPT !.tool_calls_found = last.tool_calls])
                    ELSE [c EXCEPT !.pc = "done", !.result = "fallback_answer"])

\* lines 172-173: get_thread outside any try
coach_fallback_get(ok) ==
    /\ program = "smart_coach"
    /\ coach.pc = "fallback_get"
    /\ CoachSet(IF ok THEN [coach EXCEPT !.pc = "done", !.fbGet = @ + 1,
                                         !.result = "fallback_answer"]
                ELSE [coach EXCEPT !.pc = "crashed", !.fbGet = @ + 1,
                                   !.result = "fallback"])

\* the messages the agent may append to thread2 once the question is there
CoachAgentMessages(reqs) ==
    {CMsg("assistant", Reply(1), <<>>),
     CMsg("assistant", NullContent(1), <<>>),
     CMsg("assistant", EmptyText(1), <<>>)}
    \cup (IF reqs = <<>> THEN {}
          ELSE {CMsg("assistant", NullContent(1), reqs), CMsg("assistant", Reply(1), reqs)})

coach_agent(m) ==
    /\ program = "smart_coach"
    /\ coach.thread2 # <<>>
    /\ coach.agentMsgs < MaxAgentMsgs
    /\ coach.pc \notin {"done", "crashed"}
    /\ m \in CoachAgentMessages(coach.requests)
    /\ CoachSet([coach EXCEPT !.thread2 = Append(@, m), !.agentMsgs = @ + 1])

CoachNext ==
    \/ \E res \in {"ok", "no_key", "raise"} : coach_setup(res)
    \/ \E res \in SubmitResults, made \in BOOLEAN : coach_session1(res, made)
    \/ \E res \in SubmitResults, live \in LiveResponses(coach.requests) : coach_send(res, live)
    \/ coach_sleep
    \/ \E res \in {"data", "nomessages", "raise"} : coach_get_thread(res)
    \/ coach_dispatch
    \/ \E ok \in BOOLEAN : coach_submit_outputs(ok)
    \/ coach_fallback_sleep
    \/ \E ok \in BOOLEAN : coach_fallback_get(ok)
    \/ \E m \in CoachAgentMessages(coach.requests) : coach_agent(m)

Init ==
    \/ /\ program = "main"
       /\ InitMain
       /\ coach = CoachIdle
    \/ /\ program = "smart_coach"
       /\ env_forced = NoThread
       /\ assistant_id = NoAssistant
       /\ latest_thread_id = NoThread
       /\ started = FALSE
       /\ remote = RemoteInit
       /\ ask = [p \in Asks |-> AskInit]
       /\ \E reqs \in ToolCallLists : coach = CoachInit(reqs)

Next == MainNext \/ CoachNext

Spec == Init /\ [][Next]_vars

\* ================================================================ claims
Resolved(p) == ask[p].pc \notin {"idle", "creating"}

\* C1: with no pinned handle, get_or_create_thread calls that start from an
\* empty cache and run concurrently make one create_thread call in total
\* (none having failed), and all the callers return the same handle.
C1_RaceCreatesOneThread ==
    (program = "main" /\ env_forced = NoThread /\ remote.createFailed = 0
        /\ \A p \in Asks : Resolved(p)) =>
        /\ remote.createCalls <= 1
        /\ remote.created <= 1
        /\ \A p, q \in Asks : ask[p].thread_id = ask[q].thread_id

\* C2: when get_or_create_thread gave no handle, ask makes no add_message
\* call and no get_thread call, and what it returns is an Error.
C2_NoThreadNoSubmission ==
    \A p \in Asks :
        (program = "main" /\ Resolved(p) /\ ask[p].thread_id = NoThread) =>
            /\ ask[p].nAdd = 0
            /\ ask[p].nGet = 0
            /\ ask[p].pc = "done" => ask[p].outcome.kind = "Error"

\* C3: when FORCE_THREAD_ID is set, every get_or_create_thread call returns
\* at once, with exactly that handle, and no create_thread call is made; the
\* decision is the same for every cached handle and every assistant_id.
C3_ForcedHandleReturned ==
    /\ (program = "main" /\ env_forced # NoThread) =>
           /\ remote.createCalls = 0
           /\ \A p \in Asks :
                 /\ ask[p].pc # "creating"
                 /\ Resolved(p) => ask[p].thread_id = env_forced
    /\ \A cached \in ThreadIds \cup {NoThread}, asst \in {NoAssistant, "assistant"} :
           GocDecision(ForcedId, cached, asst) = [ret |-> TRUE, id |-> ForcedId]

C3_Witness ==
    /\ program = "main"
    /\ env_forced = ForcedId
    /\ assistant_id = NoAssistant
    /\ ask[1].pc = "done"
    /\ ask[2].pc = "sleep"
    /\ ask[2].thread_id = ForcedId

\* C4: ask returns an Answer only with a non-empty text: a message whose
\* content is None or "" is never what it returns as the answer.
C4_AnswerHasText ==
    \A p \in Asks : ask[p].outcome.kind = "Answer" => Truthy(ask[p].outcome.val)

\* C5: every ask invocation that ends returns one of Answer, Timeout, Error;
\* it never ends in an exception that nothing handled.
C5_EndsWithOutcome ==
    \A p \in Asks :
        ask[p].pc = "done" => ask[p].outcome.kind \in {"Answer", "Timeout", "Error"}

\* C6: after add_message raised the ValidationError, ask returns no Error
\* for it and is in its polling loop, or ended in it after at least one
\* get_thread; smart_coach's main likewise goes on to its first sleep.
C6_SoftDefectGoesOnToPoll ==
    /\ \A p \in Asks :
          ask[p].sub = "validation" =>
              /\ ask[p].outcome.kind # "Error"
              /\ ask[p].pc \in {"sleep", "get", "done"}
              /\ ask[p].pc = "done" => ask[p].nGet >= 1
    /\ coach.sub = "validation" =>
          /\ coach.result # "send"
          /\ coach.pc = "sleep" \/ coach.nSleep >= 1

C6_Witness ==
    \E p \in Asks :
        /\ ask[p].sub = "validation"
        /\ ask[p].pc = "done"
        /\ ask[p].outcome = Outcome("Answer", Reply(p))

\* C7: after add_message raised an error other than the ValidationError, ask
\* has returned an Error, with no get_thread call and no sleep made.
C7_HardFailureReturnsError ==
    \A p \in Asks :
        ask[p].sub = "error" =>
            /\ ask[p].pc = "done"
            /\ ask[p].outcome.kind = "Error"
            /\ ask[p].nGet = 0
            /\ ask[p].nSleep = 0

C7_Witness ==
    \E p \in Asks :
        /\ ask[p].sub = "error"
        /\ ask[p].nAdd = 1
        /\ ask[p].outcome.kind = "Error"

\* C8: ask never makes more than 5 get_thread calls; an ask that polled
\* without any fetched history holding an assistant message, and without
\* get_thread raising, made exactly 5 sleeps and 5 get_thread calls and
\* returned Timeout, and a Timeout is returned in no other way.
C8_TimeoutAfterFiveTicks ==
    \A p \in Asks :
        /\ ask[p].nGet <= 5
        /\ ask[p].nSleep <= 5
        /\ (ask[p].pc = "done" /\ ask[p].sub \in {"ok", "validation"}
               /\ ~ask[p].sawAssistant /\ ask[p].outcome.kind # "Raised") =>
              ask[p].outcome.kind = "Timeout"
        /\ ask[p].outcome.kind = "Timeout" =>
              (ask[p].nGet = 5 /\ ask[p].nSleep = 5 /\ ask[p].tick = 5)

C8_Witness ==
    \E p \in Asks :
        /\ ask[p].pc = "done"
        /\ ask[p].thread_id # NoThread
        /\ ask[p].outcome.kind = "Timeout"
        /\ ask[p].nGet = 5

\* C9: the tool_outputs handed to submit_tool_outputs hold exactly one entry
\* per request of tool_calls_found, with that request's id, in order.
C9_OneOutputPerRequest ==
    (program = "smart_coach" /\ coach.pc = "submit_outputs") =>
        /\ Len(coach.tool_outputs) = Len(coach.tool_calls_found)
        /\ \A j \in 1..Len(coach.tool_outputs) :
              coach.tool_outputs[j].tool_call_id = coach.tool_calls_found[j].id

\* a lookup_nutrition request whose arguments are a string that does not
\* parse to a mapping
Malformed(tc) ==
    /\ Handled(tc)
    /\ tc.function.args.form = "str"
    /\ ~JsonLoads(tc.function.args.text).ok \/ JsonLoads(tc.function.args.text).val.type # "dict"

\* C10: a request with a malformed argument payload does not make the
\* dispatch loop raise: the loop goes past it, and once it is over
\* tool_outputs holds an entry with that request's id.
C10_MalformedArgsDoNotAbort ==
    \A j \in 1..Len(coach.tool_calls_found) :
        Malformed(coach.tool_calls_found[j]) =>
            /\ ~(coach.pc = "crashed" /\ coach.result = "dispatch")
            /\ coach.pc = "submit_outputs" =>
                  \E n \in 1..Len(coach.tool_outputs) :
                      coach.tool_outputs[n].tool_call_id = coach.tool_calls_found[j].id

\* C11: in ask the add_message call comes before the first sleep and the
\* first get_thread, and each get_thread follows its sleep; in smart_coach
\* the poll follows the add_message of session 2, and the follow-up sleep
\* and get_thread come only after submit_tool_outputs was called.
C11_SubmissionPrecedesPoll ==
    /\ \A p \in Asks :
          /\ (ask[p].nSleep >= 1 \/ ask[p].nGet >= 1 \/ ask[p].pc \in {"sleep", "get"}) =>
                ask[p].nAdd = 1
          /\ ask[p].nGet <= ask[p].nSleep
    /\ (coach.nSleep >= 1 \/ coach.nGet >= 1) => coach.sub \in {"ok", "validation"}
    /\ coach.nGet <= coach.nSleep
    /\ (coach.fbSleep >= 1 \/ coach.fbGet >= 1 \/ coach.pc \in {"fallback_sleep", "fallback_get"}) =>
          Len(coach.submitted) = 1
    /\ coach.fbGet <= coach.fbSleep

C11_Witness ==
    /\ program = "smart_coach"
    /\ coach.nGet >= 1
    /\ coach.fbGet = 1
    /\ Len(coach.submitted) = 1
    /\ coach.result = "fallback_answer"

\* C12: with no pinned handle and threads already on the service, every
\* get_or_create_thread call returns the most recently created of them and
\* no create_thread call is made.
C12_RecoveryAdoptsLatestThread ==
    (program = "main" /\ env_forced = NoThread /\ remote.prior >= 1) =>
        /\ remote.createCalls = 0
        /\ \A p \in Asks : Resolved(p) => ask[p].thread_id = PriorId(remote.prior)

\* C13: smart_coach calls submit_tool_outputs at most once; after the call
\* nothing is dispatched again and at most one sleep and one get_thread
\* follow, whatever the message read then carries.
C13_OneToolRound ==
    /\ Len(coach.submitted) <= 1
    /\ coach.fbSleep <= 1
    /\ coach.fbGet <= 1
    /\ Len(coach.submitted) = 1 =>
          /\ coach.pc \in {"fallback_sleep", "fallback_get", "done", "crashed"}
          /\ coach.k = Len(coach.tool_calls_found) + 1
          /\ coach.tool_outputs = coach.submitted[1].tool_outputs

C13_Witness ==
    /\ program = "smart_coach"
    /\ coach.nGet = 0
    /\ Len(coach.submitted) = 1
    /\ coach.fbGet = 1
    /\ coach.result = "fallback_answer"
    /\ coach.thread2[Len(coach.thread2)].tool_calls # <<>>

\* C14: when a get_thread of smart_coach's poll gives a thread whose last
\* message carries tool calls, the poll is over on that tick: exactly those
\* requests are in tool_calls_found, the flow did not return a text reply
\* (also when the message has a text), and no sleep or get_thread of the
\* poll follows.
C14_ToolCallsEndThePoll ==
    (coach.fetched.res = "data" /\ coach.fetched.last.tool_calls # <<>>) =>
        /\ coach.tool_calls_found = coach.fetched.last.tool_calls
        /\ coach.pc \notin {"sleep", "get"}
        /\ coach.result # "text_reply"
        /\ coach.nGet = coach.i + 1
        /\ coach.nSleep = coach.nGet

C14_Witness ==
    /\ program = "smart_coach"
    /\ coach.fetched.res = "data"
    /\ coach.fetched.last = CMsg("assistant", Reply(1), coach.requests)
    /\ Len(coach.requests) = 2
    /\ coach.nGet = 2
    /\ coach.pc = "dispatch"

\* request a carries as a JSON string the mapping request b carries as is
SamePayload(a, b) ==
    /\ Handled(a) /\ Handled(b)
    /\ a.function.args.form = "str"
    /\ b.function.args.form = "dict"
    /\ LET r == JsonLoads(a.function.args.text) IN
          r.ok /\ r.val.type = "dict" /\ r.val.items = b.function.args.val.items

\* the place in tool_outputs (and in invoked) of the entry made for request j
OutputIdx(j) ==
    CHOOSE n \in 1..Len(coach.tool_outputs) : coach.tool_outputs[n].tool_call_id = j

LookupCall(j, args) == [id |-> j, function |-> [name |-> "lookup_nutrition", args |-> args]]

\* C15: a request whose arguments are a JSON string and a request with the
\* same arguments as a mapping are dispatched alike: the string form raises
\* nothing the mapping form does not, and both lead to a lookup_nutrition
\* call with the same food_name and to the same output body.
C15_StringAndMappingAgree ==
    /\ \A a, b \in 1..Len(coach.tool_calls_found) :
          SamePayload(coach.tool_calls_found[a], coach.tool_calls_found[b]) =>
              /\ DispatchOne(coach.tool_calls_found[b]).status = "output" =>
                    ~(coach.pc = "crashed" /\ coach.result = "dispatch" /\ coach.k = a)
              /\ (a < coach.k /\ b < coach.k) =>
                    /\ \E n \in 1..Len(coach.tool_outputs) : coach.tool_outputs[n].tool_call_id = a
                    /\ \E n \in 1..Len(coach.tool_outputs) : coach.tool_outputs[n].tool_call_id = b
                    /\ coach.tool_outputs[OutputIdx(a)].output = coach.tool_outputs[OutputIdx(b)].output
                    /\ coach.invoked[OutputIdx(a)] = coach.invoked[OutputIdx(b)]
    /\ \A food \in {"Pad Thai", "pad thai", "pizza"} :
          LET asString == DispatchOne(LookupCall(1, StrArgs(JsonOf("food_name", food))))
              asMapping == DispatchOne(LookupCall(1, DictArgs(Dict(<<<<"food_name", food>>>>))))
          IN  asString = asMapping /\ asString.status = "output"

C15_Witness ==
    /\ program = "smart_coach"
    /\ Len(coach.tool_calls_found) = 2
    /\ SamePayload(coach.tool_calls_found[1], coach.tool_calls_found[2])
    /\ coach.pc = "submit_outputs"
    /\ Len(coach.tool_outputs) = 2
    /\ coach.invoked = <<Str("Pad Thai"), Str("Pad Thai")>>

\* the poll state of one ask invocation: its loop counter, its position in
\* the loop, what it did and its outcome
PollState(a) == <<a.tick, a.pc, a.nSleep, a.nGet, a.sawAssistant, a.outcome>>

\* C16: the poll state is private to each ask invocation. A step that changes
\* the poll state of one invocation leaves that of every other invocation as
\* it was; an invocation's tick counter counts its own fetches only, and no
\* invocation makes more than 5 ticks, whatever the others do.
C16_PollStatePrivate ==
    [][/\ \A p \in Asks :
             PollState(ask'[p]) # PollState(ask[p]) =>
                 \A q \in Asks \ {p} : PollState(ask'[q]) = PollState(ask[q])
       /\ \A p \in Asks :
             /\ ask'[p].tick <= RetryBudget
             /\ ask'[p].nSleep <= RetryBudget
             /\ ask'[p].nGet <= RetryBudget
             /\ ask'[p].pc = "sleep" => ask'[p].tick = ask'[p].nGet
             /\ ask'[p].pc = "get" => ask'[p].tick = ask'[p].nGet
             /\ ask'[p].outcome.kind = "Timeout" =>
                   ask'[p].tick = RetryBudget /\ ask'[p].nGet = RetryBudget]_vars

C16_Witness ==
    /\ program = "main"
    /\ ask[1].outcome.kind = "Timeout"
    /\ ask[1].nGet = RetryBudget
    /\ ask[2].pc = "get"
    /\ ask[2].tick = 2
    /\ ask[2].nGet = 2

\* C17: every submit_tool_outputs call names thread2. When the send raised
\* the validation defect there is no response object, the tool calls came
\* from the poll, and the call carries no run identifier; when the tool calls
\* came from a live REQUIRES_ACTION response, the call carries the run
\* identifier of that response.
C17_RunIdFollowsResponse ==
    \A n \in 1..Len(coach.submitted) :
        /\ coach.submitted[n].thread_id = "thread2"
        /\ coach.sub = "validation" =>
              /\ coach.response = NoResponse
              /\ coach.nGet >= 1
              /\ coach.fetched.last.tool_calls = coach.tool_calls_found
              /\ coach.submitted[n].run_id = "none"
        /\ (coach.sub = "ok" /\ coach.response.status = "REQUIRES_ACTION") =>
              /\ coach.nGet = 0
              /\ coach.tool_calls_found = coach.response.tool_calls
              /\ coach.submitted[n].run_id = coach.response.run_id
              /\ coach.submitted[n].run_id # "none"

C17_Witness ==
    /\ program = "smart_coach"
    /\ coach.sub = "validation"
    /\ coach.nGet = 2
    /\ Len(coach.submitted) = 1
    /\ coach.submitted[1].run_id = "none"
    /\ coach.submitted[1].tool_outputs # <<>>
    /\ coach.result = "tool_answer"

\* C18: when a fetch of ask finds a non-empty assistant text as the latest
\* message of the history, ask is over with Answer carrying that text, and
\* the observing fetch is its last: one sleep and one get_thread per tick up
\* to that tick, none after it.
C18_AnswerOnObservingTick ==
    \A p \in Asks :
        Truthy(ask[p].sawText) =>
            /\ ask[p].pc = "done"
            /\ ask[p].outcome = Outcome("Answer", ask[p].sawText)
            /\ ask[p].nGet = ask[p].tick + 1
            /\ ask[p].nSleep = ask[p].nGet

C18_Witness ==
    /\ program = "main"
    /\ ask[1].outcome = Outcome("Answer", Reply(1))
    /\ ask[2].thread_id = ask[1].thread_id
    /\ ask[2].sawText = Reply(2)
    /\ ask[2].tick = 1
    /\ ask[2].nGet = 2
    /\ ask[2].pc = "done"

\* C19: a create_thread that fails inside get_or_create_thread is not fatal.
\* The call returns no handle, nothing is raised (the handler goes on to its
\* next statement with no outcome yet), and the cached latest_thread_id is
\* what it was before the failure. A later call that finds the cache empty,
\* no pinned thread and an assistant attempts creation again.
C19_FailedCreationIsNotFatal ==
    [][\A p \in Asks :
          /\ (ask[p].pc = "creating" /\ ask'[p] # ask[p]
                 /\ remote'.createFailed = remote.createFailed + 1) =>
                /\ ask'[p].thread_id = NoThread
                /\ ask'[p].pc = "submit"
                /\ ask'[p].outcome = NoOutcome
                /\ latest_thread_id' = latest_thread_id
                /\ remote'.created = remote.created
          /\ (ask[p].pc = "idle" /\ ask'[p] # ask[p] /\ remote.createFailed >= 1
                 /\ latest_thread_id = NoThread /\ env_forced = NoThread
                 /\ assistant_id # NoAssistant) =>
                /\ ask'[p].pc = "creating"
                /\ remote'.createCalls = remote.createCalls + 1]_vars

C19_Witness ==
    /\ program = "main"
    /\ remote.createFailed = 1
    /\ remote.createCalls = 2
    /\ remote.created = 0
    /\ latest_thread_id = NoThread
    /\ ask[1].thread_id = NoThread
    /\ ask[1].pc = "done"
    /\ ask[1].outcome.kind # "Raised"
    /\ ask[2].pc = "creating"

\* the script is in step C or has been there: the dispatch loop, the
\* submit_tool_outputs call or the fallback read
InStepC ==
    \/ coach.pc \in {"dispatch", "submit_outputs", "fallback_sleep", "fallback_get"}
    \/ coach.result \in {"dispatch", "tool_answer", "fallback_answer", "fallback"}
    \/ coach.submitted # <<>>
    \/ coach.tool_outputs # <<>>
    \/ coach.invoked # <<>>

\* the poll ended with tool calls: taken from the live response, or from the
\* latest message of a fetched thread
ToolRequested ==
    /\ coach.tool_calls_found # <<>>
    /\ coach.i < CoachBudget
    /\ \/ /\ coach.response.status = "REQUIRES_ACTION"
          /\ coach.tool_calls_found = coach.response.tool_calls
       \/ /\ coach.fetched.res = "data"
          /\ coach.tool_calls_found = coach.fetched.last.tool_calls

\* C20: in smart_coach, tool dispatch and submit_tool_outputs happen only
\* after the poll ended with tool calls requested. Once a text reply has been
\* observed the script is over with nothing dispatched or submitted, and so
\* it is when the 5 iterations ran out with nothing found.
C20_DispatchOnlyWhenToolRequested ==
    /\ InStepC => ToolRequested
    /\ coach.result = "text_reply" =>
          /\ coach.pc = "done"
          /\ ~InStepC
          /\ Truthy(coach.fetched.last.content)
    /\ coach.i = CoachBudget =>
          /\ coach.pc = "done"
          /\ coach.result = "no_response"
          /\ coach.nGet = CoachBudget
          /\ ~InStepC
    /\ ~InStepC => (coach.submitted = <<>> /\ coach.k = 1)

C20_Witness ==
    /\ program = "smart_coach"
    /\ coach.sub = "ok"
    /\ coach.response.status = "COMPLETED"
    /\ coach.nGet = 3
    /\ coach.fetched.last.tool_calls # <<>>
    /\ coach.pc = "submit_outputs"
    /\ coach.tool_outputs # <<>>

\* a fetch of the smart_coach poll that gives nothing to act on: get_thread
\* failed or gave no messages, or the latest message has no tool calls and a
\* null or empty content
EmptyFetch(f) ==
    \/ f.res # "data"
    \/ f.last.tool_calls = <<>> /\ ~Truthy(f.last.content)

\* C21: in the smart_coach poll, a tick whose get_thread fails, or whose
\* latest message has null or empty content and no tool calls, raises
\* nothing and finds nothing: it uses up one iteration, and the loop goes on
\* to the next sleep, or is over with "no response" when that was the fifth.
C21_EmptyTickGoesOn ==
    [][(coach.pc = "get" /\ coach'.nGet = coach.nGet + 1 /\ EmptyFetch(coach'.fetched)) =>
          /\ coach'.i = coach.i + 1
          /\ coach'.pc # "crashed"
          /\ coach'.tool_calls_found = <<>>
          /\ coach'.tool_outputs = <<>>
          /\ coach'.submitted = <<>>
          /\ coach.i + 1 < CoachBudget => (coach'.pc = "sleep" /\ coach'.result = "none")
          /\ coach.i + 1 = CoachBudget => (coach'.pc = "done" /\ coach'.result = "no_response")
      ]_vars

C21_Witness ==
    /\ program = "smart_coach"
    /\ coach.fetched = Fetch("data", CMsg("assistant", NullContent(1), <<>>))
    /\ coach.nGet = 2
    /\ coach.i = 2
    /\ coach.pc = "sleep"
    /\ coach.result = "none"

\* the ask calls made so far came one after the other: of any two that
\* were called, one had returned when the other was called
Sequential ==
    \A p, q \in Asks :
        (p # q /\ ask[p].pc # "idle" /\ ask[q].pc # "idle") =>
            (q \in ask[p].after \/ p \in ask[q].after)

\* message m stands in history h somewhere after the question of ask p
FollowsQuestion(h, p, m) ==
    \E i, j \in 1..Len(h) : i < j /\ h[i] = Msg("user", Question(p)) /\ h[j] = m

\* C22: over a sequence of ask calls on the same cached thread, each earlier
\* one answered, the assistant message an invocation returns as Answer was
\* appended to the thread after the question this invocation submitted; it
\* is never a message of an earlier exchange.
C22_AnswerFollowsOwnQuestion ==
    \A p \in Asks :
        (/\ Sequential
         /\ env_forced = NoThread
         /\ ask[p].thread_id = latest_thread_id
         /\ \A q \in ask[p].after :
               ask[q].thread_id = ask[p].thread_id /\ ask[q].outcome = Outcome("Answer", Reply(q))
         /\ ask[p].outcome.kind = "Answer") =>
            FollowsQuestion(remote.hist[ask[p].thread_id], p,
                            Msg("assistant", ask[p].outcome.val))

\* C23: in sequential use with no pinned handle, once latest_thread_id holds
\* a handle it keeps it, and every get_or_create_thread call made from then
\* on returns that handle at once, with no create_thread call; and when the
\* handle is pinned, calls return the pinned handle and latest_thread_id is
\* never written.
C23_CachedHandleIsReused ==
    [][/\ \A p \in Asks :
             (ask[p].pc = "idle" /\ ask'[p].pc # "idle"
                 /\ env_forced = NoThread /\ latest_thread_id # NoThread) =>
                   /\ ask'[p].pc = "submit"
                   /\ ask'[p].thread_id = latest_thread_id
                   /\ remote'.createCalls = remote.createCalls
                   /\ remote'.created = remote.created
       /\ (Sequential' /\ env_forced = NoThread /\ latest_thread_id # NoThread) =>
             /\ latest_thread_id' = latest_thread_id
             /\ remote'.created = 1
       /\ env_forced # NoThread =>
             /\ latest_thread_id' = NoThread
             /\ remote'.createCalls = 0
             /\ \A p \in Asks :
                   (ask[p].pc = "idle" /\ ask'[p].pc # "idle") =>
                       ask'[p].thread_id = env_forced
      ]_vars

C23_Witness ==
    /\ program = "main"
    /\ env_forced = NoThread
    /\ latest_thread_id = Tid(1)
    /\ ask[1].pc = "done"
    /\ ask[1].thread_id = Tid(1)
    /\ ask[2].after = {1}
    /\ ask[2].pc = "submit"
    /\ ask[2].thread_id = Tid(1)
    /\ remote.createCalls = 1

====
